---- MODULE Spec2Model ----
(***************************************************************************)
(* The TinyFlux in-memory Index (tinyflux/index.py): the posting           *)
(* collections, their maintenance by build / insert / remove / update /    *)
(* invalidate, the recursive query evaluation of search, and the           *)
(* IndexResult algebra.                                                    *)
(*                                                                         *)
(* Python dicts are modelled as TLA+ functions (dict equality in Python    *)
(* ignores insertion order), Python lists as sequences, positions are      *)
(* 0-based as in the code (a list element i lives at sequence index i+1).  *)
(***************************************************************************)
EXTENDS Integers, Sequences, FiniteSets, TLC

VARIABLES
    num_items,      \* Index._num_items
    tags,           \* Index._tags          : key -> value -> list of positions
    fields,         \* Index._fields        : key -> list of positions
    measurements,   \* Index._measurements  : name -> list of positions
    timestamps,     \* Index._timestamps    : list of epoch values
    valid,          \* Index._valid
    op,             \* the operation that produced this state
    prev,           \* the operation before it
    fault,          \* TRUE iff that operation raised (KeyError of update)
    points,         \* the caller's record list the index is meant to mirror
    sync,           \* caller protocol: "synced", "pending" (removed, update due), "broken"
    lateInsert,     \* an insert ran while a held position was >= len(timestamps)
    staleRemove,    \* a remove was given a position >= len(timestamps)
    stray,          \* operations since the caller left the remove-then-update protocol
    covered,        \* the last update's map had a key for every position then held
    query,          \* argument of the last search
    rst,            \* IndexResult returned by the last search
    ra, rb, rout    \* IndexResult operands and result of the last algebra step

vars == <<num_items, tags, fields, measurements, timestamps, valid, op, prev, fault,
          points, sync, lateInsert, staleRemove, stray, covered, query, rst, ra, rb, rout>>

indexVars == <<num_items, tags, fields, measurements, timestamps, valid>>
callerVars == <<points, sync, lateInsert, staleRemove, stray, covered>>
searchVars == <<query, rst>>
algebraVars == <<ra, rb, rout>>

(***************************************************************************)
(* Bounds of the model.                                                    *)
(***************************************************************************)
\* longest record list the caller ever holds / longest timestamps list
MaxLen == 3
\* largest position an update map may assign
MaxPos == 3
\* largest universe size (index_count) of an IndexResult in the algebra checks
MaxCount == 3
\* operations the caller may perform outside the remove-then-update protocol
\* before it rebuilds the index
MaxStray == 1

(***************************************************************************)
(* Values.                                                                 *)
(***************************************************************************)
EmptyDict == [k \in {} |-> <<>>]

\* a datetime, as its number of ticks since the epoch
DateTime(n) == [ticks |-> n]

\* list(range(n)) : 0, 1, ..., n-1
Range(n) == [i \in 1..n |-> i - 1]

\* list(range(a, b))
RangeFrom(a, b) == [i \in 1..(b - a) |-> a + i - 1]

\* the set of elements of a list
Elems(s) == {s[i] : i \in 1..Len(s)}

\* the records (tinyflux.Point) the caller draws from
Point(t, m, tg, fl) == [time |-> DateTime(t), measurement |-> m, tags |-> tg, fields |-> fl]

PointPool ==
    { Point(1, "m1", [k \in {"k1"} |-> "a"], [k \in {"f1"} |-> 1]),
      Point(3, "m2", EmptyDict, EmptyDict),
      Point(3, "m1", [k \in {"k1", "k2"} |-> IF k = "k1" THEN "b" ELSE "a"], [k \in {"f1"} |-> 2]) }

RECURSIVE ListsUpTo(_, _)
ListsUpTo(S, n) ==
    IF n = 0 THEN {<<>>}
    ELSE LET shorter == ListsUpTo(S, n - 1)
         IN shorter \cup {Append(l, x) : l \in {s \in shorter : Len(s) = n - 1}, x \in S}

(***************************************************************************)
(* tinyflux/utils.py (not among the sources): the sorted-list primitives,  *)
(* written from their description: merge-style set operations and the      *)
(* bisect-based binary searches.  None is modelled as -1.                  *)
(***************************************************************************)
None == 0 - 1

RECURSIVE union_two_sorted_lists(_, _)
union_two_sorted_lists(a, b) ==
    IF a = <<>> THEN b
    ELSE IF b = <<>> THEN a
    ELSE IF Head(a) < Head(b) THEN <<Head(a)>> \o union_two_sorted_lists(Tail(a), b)
    ELSE IF Head(b) < Head(a) THEN <<Head(b)>> \o union_two_sorted_lists(a, Tail(b))
    ELSE <<Head(a)>> \o union_two_sorted_lists(Tail(a), Tail(b))

RECURSIVE intersection_two_sorted_lists(_, _)
intersection_two_sorted_lists(a, b) ==
    IF a = <<>> \/ b = <<>> THEN <<>>
    ELSE IF Head(a) < Head(b) THEN intersection_two_sorted_lists(Tail(a), b)
    ELSE IF Head(b) < Head(a) THEN intersection_two_sorted_lists(a, Tail(b))
    ELSE <<Head(a)>> \o intersection_two_sorted_lists(Tail(a), Tail(b))

RECURSIVE difference_generator_and_sorted_lists(_, _)
difference_generator_and_sorted_lists(gen, excl) ==
    IF gen = <<>> THEN <<>>
    ELSE IF excl = <<>> THEN gen
    ELSE IF Head(gen) < Head(excl)
         THEN <<Head(gen)>> \o difference_generator_and_sorted_lists(Tail(gen), excl)
    ELSE IF Head(gen) = Head(excl)
         THEN difference_generator_and_sorted_lists(Tail(gen), Tail(excl))
    ELSE difference_generator_and_sorted_lists(gen, Tail(excl))

\* bisect.bisect_left(a, x) on the 0-based window [lo, hi)
RECURSIVE bisect_left(_, _, _, _)
bisect_left(a, x, lo, hi) ==
    IF lo >= hi THEN lo
    ELSE LET mid == (lo + hi) \div 2
         IN IF a[mid + 1] < x THEN bisect_left(a, x, mid + 1, hi)
            ELSE bisect_left(a, x, lo, mid)

\* bisect.bisect_right(a, x) on the 0-based window [lo, hi)
RECURSIVE bisect_right(_, _, _, _)
bisect_right(a, x, lo, hi) ==
    IF lo >= hi THEN lo
    ELSE LET mid == (lo + hi) \div 2
         IN IF x < a[mid + 1] THEN bisect_right(a, x, lo, mid)
            ELSE bisect_right(a, x, mid + 1, hi)

\* leftmost position whose value equals x
find_eq(a, x) ==
    LET i == bisect_left(a, x, 0, Len(a))
    IN IF i # Len(a) /\ a[i + 1] = x THEN i ELSE None

\* rightmost position whose value is less than x
find_lt(a, x) ==
    LET i == bisect_left(a, x, 0, Len(a))
    IN IF i # 0 THEN i - 1 ELSE None

\* rightmost position whose value is less than or equal to x
find_le(a, x) ==
    LET i == bisect_right(a, x, 0, Len(a))
    IN IF i # 0 THEN i - 1 ELSE None

\* leftmost position whose value is greater than x
find_gt(a, x) ==
    LET i == bisect_right(a, x, 0, Len(a))
    IN IF i # Len(a) THEN i ELSE None

\* leftmost position whose value is greater than or equal to x
find_ge(a, x) ==
    LET i == bisect_left(a, x, 0, Len(a))
    IN IF i # Len(a) THEN i ELSE None

(***************************************************************************)
(* class IndexResult                                                       *)
(***************************************************************************)
IndexResult(items, is_complete, index_count) ==
    [items |-> items, is_complete |-> is_complete, index_count |-> index_count]

\* IndexResult.__invert__ with the completeness flag flipped
InvertFlipsComplete(r) ==
    IndexResult(difference_generator_and_sorted_lists(Range(r.index_count), r.items),
                ~r.is_complete, r.index_count)

\* IndexResult.__invert__ taking the complement within the largest item only
InvertShortUniverse(r) ==
    IndexResult(difference_generator_and_sorted_lists(
                    Range(IF r.items = <<>> THEN 0 ELSE r.items[Len(r.items)]), r.items),
                r.is_complete, r.index_count)

\* IndexResult.__invert__
Invert(r) ==
    IndexResult(difference_generator_and_sorted_lists(Range(r.index_count), r.items),
                r.is_complete, r.index_count)

\* IndexResult.__and__ complete as soon as one operand is
AndCompleteIfEither(self, other) ==
    IndexResult(intersection_two_sorted_lists(self.items, other.items),
                self.is_complete \/ other.is_complete, self.index_count)

\* IndexResult.__and__
And(self, other) ==
    IndexResult(intersection_two_sorted_lists(self.items, other.items),
                self.is_complete /\ other.is_complete, self.index_count)

\* IndexResult.__or__
Or(self, other) ==
    IndexResult(union_two_sorted_lists(self.items, other.items),
                self.is_complete /\ other.is_complete, self.index_count)

(***************************************************************************)
(* class Index: the state as one record, and the private helpers           *)
(***************************************************************************)
Self ==
    [num_items |-> num_items, tags |-> tags, fields |-> fields,
     measurements |-> measurements, timestamps |-> timestamps, valid |-> valid]

\* Index.__init__(valid)
NewIndex(v) ==
    [num_items |-> 0, tags |-> EmptyDict, fields |-> EmptyDict,
     measurements |-> EmptyDict, timestamps |-> <<>>, valid |-> v]

\* Index._reset
_reset(ix) == NewIndex(TRUE)

\* datetime.timestamp()
Timestamp(d) == d.ticks

\* datetime.fromtimestamp()
FromTimestamp(x) == DateTime(x)

\* Index._insert_time
_insert_time(ts, time) == Append(ts, Timestamp(time))

\* Index._insert_fields
_insert_fields(fl, idx, pfields) ==
    [k \in DOMAIN fl \cup DOMAIN pfields |->
        IF k \notin DOMAIN pfields THEN fl[k]
        ELSE IF k \notin DOMAIN fl THEN <<idx>>
        ELSE Append(fl[k], idx)]

\* Index._insert_measurements putting the new position in front of the list
_insert_measurements_in_front(ms, idx, measurement) ==
    [k \in DOMAIN ms \cup {measurement} |->
        IF k # measurement THEN ms[k]
        ELSE IF k \notin DOMAIN ms THEN <<idx>>
        ELSE <<idx>> \o ms[k]]

\* Index._insert_measurements
_insert_measurements(ms, idx, measurement) ==
    [k \in DOMAIN ms \cup {measurement} |->
        IF k # measurement THEN ms[k]
        ELSE IF k \notin DOMAIN ms THEN <<idx>>
        ELSE Append(ms[k], idx)]

\* Index._insert_tags
_insert_tags(tg, idx, ptags) ==
    [k \in DOMAIN tg \cup DOMAIN ptags |->
        IF k \notin DOMAIN ptags THEN tg[k]
        ELSE LET old == IF k \in DOMAIN tg THEN tg[k] ELSE EmptyDict
                 v == ptags[k]
             IN [x \in DOMAIN old \cup {v} |->
                    IF x # v THEN old[x]
                    ELSE IF x \notin DOMAIN old THEN <<idx>>
                    ELSE Append(old[x], idx)]]

\* one iteration of the loop of build / insert: index `point` at position idx
InsertOne(ix, idx, point) ==
    [num_items |-> ix.num_items + 1,
     timestamps |-> _insert_time(ix.timestamps, point.time),
     tags |-> _insert_tags(ix.tags, idx, point.tags),
     fields |-> _insert_fields(ix.fields, idx, point.fields),
     measurements |-> _insert_measurements(ix.measurements, idx, point.measurement),
     valid |-> ix.valid]

\* the loop of build / insert over enumerate(pts), positions start_idx + 0, 1, ...
RECURSIVE InsertLoop(_, _, _)
InsertLoop(ix, start_idx, pts) ==
    IF pts = <<>> THEN ix
    ELSE InsertLoop(InsertOne(ix, start_idx, Head(pts)), start_idx + 1, Tail(pts))

\* Index.build without the _reset() it starts with
build_without_reset(ix, pts) == InsertLoop(ix, 0, pts)

\* Index.build
build(ix, pts) == InsertLoop(_reset(ix), 0, pts)

\* Index.insert numbering the new records from 0, as build does
insert_from_zero(ix, pts) == InsertLoop(ix, 0, pts)

\* Index.insert marking the index valid, as build does
insert_sets_valid(ix, pts) ==
    [InsertLoop(ix, Len(ix.timestamps), pts) EXCEPT !.valid = TRUE]

\* Index.insert
insert(ix, pts) == InsertLoop(ix, Len(ix.timestamps), pts)

\* Index.invalidate without the _reset() it starts with
invalidate_without_reset(ix) == [ix EXCEPT !.valid = FALSE]

\* Index.invalidate
invalidate(ix) == [_reset(ix) EXCEPT !.valid = FALSE]

\* [i for i in old_items if i not in r_items]
Without(old_items, r_items) == SelectSeq(old_items, LAMBDA i : i \notin r_items)

\* Index._remove_fields
_remove_fields(fl, r_items) ==
    [k \in {k \in DOMAIN fl : Without(fl[k], r_items) # <<>>} |-> Without(fl[k], r_items)]

\* Index._remove_measurements keeping a name whose list became empty
_remove_measurements_keeps_empty(ms, r_items) ==
    [m \in DOMAIN ms |-> Without(ms[m], r_items)]

\* Index._remove_measurements
_remove_measurements(ms, r_items) ==
    [m \in {m \in DOMAIN ms : Without(ms[m], r_items) # <<>>} |-> Without(ms[m], r_items)]

\* Index._remove_tags
_remove_tags(tg, r_items) ==
    [k \in {k \in DOMAIN tg : \E v \in DOMAIN tg[k] : Without(tg[k][v], r_items) # <<>>} |->
        [v \in {v \in DOMAIN tg[k] : Without(tg[k][v], r_items) # <<>>} |->
            Without(tg[k][v], r_items)]]

\* the entries of a list whose 0-based place is not in r_items
RECURSIVE DropPlaces(_, _, _)
DropPlaces(s, i, r_items) ==
    IF s = <<>> THEN <<>>
    ELSE IF i \in r_items THEN DropPlaces(Tail(s), i + 1, r_items)
    ELSE <<Head(s)>> \o DropPlaces(Tail(s), i + 1, r_items)

\* Index._remove_timestamps testing the timestamp, not its place, against r_items
_remove_timestamps_by_value(ts, r_items) == SelectSeq(ts, LAMBDA t : t \notin r_items)

\* Index._remove_timestamps
_remove_timestamps(ts, r_items) == DropPlaces(ts, 0, r_items)

\* Index.remove leaving num_items as it was
remove_keeps_count(ix, r_items) ==
    [num_items |-> ix.num_items,
     timestamps |-> _remove_timestamps(ix.timestamps, r_items),
     measurements |-> _remove_measurements(ix.measurements, r_items),
     tags |-> _remove_tags(ix.tags, r_items),
     fields |-> _remove_fields(ix.fields, r_items),
     valid |-> ix.valid]

\* Index.remove
remove(ix, r_items) ==
    [num_items |-> ix.num_items - Cardinality(r_items),
     timestamps |-> _remove_timestamps(ix.timestamps, r_items),
     measurements |-> _remove_measurements(ix.measurements, r_items),
     tags |-> _remove_tags(ix.tags, r_items),
     fields |-> _remove_fields(ix.fields, r_items),
     valid |-> ix.valid]

\* [u_items[i] for i in old_items]
Mapped(old_items, u_items) == [j \in 1..Len(old_items) |-> u_items[old_items[j]]]

\* the lookup made among the new positions instead of the old ones
MissingAmongNewPositions(old_items, u_items) ==
    Elems(old_items) \ {u_items[i] : i \in DOMAIN u_items}

\* the positions a posting list refers to that u_items has no entry for
Missing(old_items, u_items) == Elems(old_items) \ DOMAIN u_items

\* what a call leaves behind: the index, and whether the call raised
Outcome(ix, r) == [index |-> ix, raised |-> r]

\* Index._update_fields (all keys present in u_items)
_update_fields(fl, u_items) == [k \in DOMAIN fl |-> Mapped(fl[k], u_items)]

\* Index._update_measurements (all keys present in u_items)
_update_measurements(ms, u_items) ==
    [m \in {m \in DOMAIN ms : ms[m] # <<>>} |-> Mapped(ms[m], u_items)]

\* Index._update_tags (all keys present in u_items)
_update_tags(tg, u_items) ==
    [k \in DOMAIN tg |-> [v \in DOMAIN tg[k] |-> Mapped(tg[k][v], u_items)]]

\* Index.update without the call of _update_fields
update_skips_fields(ix, u_items) ==
    [ix EXCEPT !.measurements = _update_measurements(ix.measurements, u_items),
               !.tags = _update_tags(ix.tags, u_items)]

\* Index.update when no lookup fails
update(ix, u_items) ==
    [ix EXCEPT !.measurements = _update_measurements(ix.measurements, u_items),
               !.tags = _update_tags(ix.tags, u_items),
               !.fields = _update_fields(ix.fields, u_items)]

\* Index.get_measurement_names
get_measurement_names(ix) == DOMAIN ix.measurements

(***************************************************************************)
(* Queries (tinyflux/queries.py, not among the sources), written from their *)
(* description: a leaf carries its attribute kind, an operator and          *)
(* right-hand side (Time), and a path resolver and test.  The resolver of a *)
(* Tag or Field leaf looks its key up in the dict it is given and faults    *)
(* when the key is absent; the test accepts a set of values.                *)
(***************************************************************************)
TimeQuery(o, t) ==
    [kind |-> "simple", point_attr |-> "_time", operator |-> o, rhs |-> DateTime(t)]

\* a Time leaf with a custom test: none of the six comparison operators
TimeTestQuery(accept) ==
    [kind |-> "simple", point_attr |-> "_time", operator |-> "test", accept |-> accept]

MeasurementQuery(accept) ==
    [kind |-> "simple", point_attr |-> "_measurement", accept |-> accept]

TagQuery(key, accept) ==
    [kind |-> "simple", point_attr |-> "_tags", key |-> key, accept |-> accept]

FieldQuery(key, accept) ==
    [kind |-> "simple", point_attr |-> "_fields", key |-> key, accept |-> accept]

NotQuery(q) == [kind |-> "compound", operator |-> "not_", query1 |-> q]
AndQuery(q1, q2) == [kind |-> "compound", operator |-> "and_", query1 |-> q1, query2 |-> q2]
OrQuery(q1, q2) == [kind |-> "compound", operator |-> "or_", query1 |-> q1, query2 |-> q2]

\* the leaf q with a resolver that, besides, faults on the values of faults_on
WithResolver(q, faults_on) == q @@ [faults_on |-> faults_on]

\* query._path_resolver(x) faults on the value x it is handed
ResolverRaises(q, x) == "faults_on" \in DOMAIN q /\ x \in q.faults_on

\* query._path_resolver(d) for a Tag / Field leaf: TRUE iff it does not fault
Resolves(q, d) == q.key \in DOMAIN d /\ ~ResolverRaises(q, d[q.key])

\* query._test(value)
Test(q, value) == value \in q.accept

\* a comparison operator of the operator module applied to two numbers
Compare(o, x, y) ==
    CASE o = "eq" -> x = y
      [] o = "ne" -> x # y
      [] o = "lt" -> x < y
      [] o = "le" -> x <= y
      [] o = "gt" -> x > y
      [] o = "ge" -> x >= y

\* the query called on a record: what a full scan of the storage evaluates
RECURSIVE Satisfies(_, _)
Satisfies(q, point) ==
    IF q.kind = "compound"
    THEN CASE q.operator = "not_" -> ~Satisfies(q.query1, point)
           [] q.operator = "and_" -> Satisfies(q.query1, point) /\ Satisfies(q.query2, point)
           [] q.operator = "or_" -> Satisfies(q.query1, point) \/ Satisfies(q.query2, point)
    ELSE CASE q.point_attr = "_time" ->
                IF q.operator = "test"
                THEN ~ResolverRaises(q, point.time) /\ Test(q, point.time)
                ELSE Compare(q.operator, Timestamp(point.time), Timestamp(q.rhs))
           [] q.point_attr = "_measurement" ->
                ~ResolverRaises(q, point.measurement) /\ Test(q, point.measurement)
           [] q.point_attr = "_tags" ->
                Resolves(q, point.tags) /\ Test(q, point.tags[q.key])
           [] q.point_attr = "_fields" ->
                Resolves(q, point.fields) /\ Test(q, point.fields[q.key])

(***************************************************************************)
(* Index.search and its helpers                                            *)
(***************************************************************************)
\* rst_items = union_two_sorted_lists(rst_items, items) over a set of lists
RECURSIVE UnionAll(_)
UnionAll(lists) ==
    IF lists = {} THEN <<>>
    ELSE LET l == CHOOSE x \in lists : TRUE
         IN union_two_sorted_lists(UnionAll(lists \ {l}), l)

\* Index._search_fields
_search_fields(ix, q) ==
    UnionAll({ix.fields[k] : k \in {k \in DOMAIN ix.fields : Resolves(q, [x \in {k} |-> ""])}})

\* Index._search_measurement: query._path_resolver(key) is called bare, so
\* a fault of the resolver on a measurement key leaves the method
_search_measurement_raises(ix, q) ==
    \E m \in DOMAIN ix.measurements : ResolverRaises(q, m)

\* Index._search_measurement, when no resolver call faults
_search_measurement(ix, q) ==
    UnionAll({ix.measurements[m] : m \in {m \in DOMAIN ix.measurements : Test(q, m)}})

\* Index._search_tags without the resolver's key lookup: every value is tested
_search_tags_any_key(ix, q) ==
    UnionAll(UNION {{ix.tags[k][v] : v \in {v \in DOMAIN ix.tags[k] : Test(q, v)}}
                    : k \in DOMAIN ix.tags})

\* Index._search_tags
_search_tags(ix, q) ==
    UnionAll(UNION {{ix.tags[k][v] : v \in {v \in DOMAIN ix.tags[k] :
                                             /\ Resolves(q, [x \in {k} |-> v])
                                             /\ Test(q, v)}}
                    : k \in DOMAIN ix.tags})

\* the loop of the eq / ne branches: match, match+1, ... while the timestamp is x
RECURSIVE EqualRun(_, _, _)
EqualRun(ts, match, x) ==
    IF match < Len(ts) /\ ts[match + 1] = x
    THEN <<match>> \o EqualRun(ts, match + 1, x)
    ELSE <<>>

\* Index._search_timestamps, op == operator.eq
TimestampsEq(ts, x) ==
    LET match == find_eq(ts, x)
    IN IF match = None THEN <<>>
       ELSE <<match>> \o EqualRun(ts, match + 1, x)

\* Index._search_timestamps, op == operator.ne
TimestampsNe(ts, x) ==
    LET match == find_eq(ts, x)
    IN IF match = None THEN Range(Len(ts))
       ELSE difference_generator_and_sorted_lists(
                Range(Len(ts)), <<match>> \o EqualRun(ts, match + 1, x))

\* Index._search_timestamps, op == operator.lt, returning range(match)
TimestampsLtOffByOne(ts, x) ==
    LET match == find_lt(ts, x)
    IN IF match = None THEN <<>> ELSE Range(match)

\* Index._search_timestamps, op == operator.lt
TimestampsLt(ts, x) ==
    LET match == find_lt(ts, x)
    IN IF match = None THEN <<>> ELSE Range(match + 1)

\* Index._search_timestamps, op == operator.le
TimestampsLe(ts, x) ==
    LET match == find_le(ts, x)
    IN IF match = None THEN <<>> ELSE Range(match + 1)

\* Index._search_timestamps, op == operator.gt
TimestampsGt(ts, x) ==
    LET match == find_gt(ts, x)
    IN IF match = None THEN <<>> ELSE RangeFrom(match, Len(ts))

\* Index._search_timestamps, op == operator.ge
TimestampsGe(ts, x) ==
    LET match == find_ge(ts, x)
    IN IF match = None THEN <<>> ELSE RangeFrom(match, Len(ts))

\* Index._search_timestamps, all other operators: the linear scan
RECURSIVE TimestampsScan(_, _, _)
TimestampsScan(ts, idx, q) ==
    IF idx >= Len(ts) THEN <<>>
    ELSE (IF Test(q, FromTimestamp(ts[idx + 1])) THEN <<idx>> ELSE <<>>)
         \o TimestampsScan(ts, idx + 1, q)

\* Index._search_timestamps, all other operators: the resolver is called
\* bare on each timestamp, so a fault of the resolver leaves the method
_search_timestamps_raises(ix, q) ==
    /\ q.operator \notin {"eq", "ne", "lt", "le", "gt", "ge"}
    /\ \E i \in 1..Len(ix.timestamps) : ResolverRaises(q, FromTimestamp(ix.timestamps[i]))

\* Index._search_timestamps, when no resolver call faults
_search_timestamps(ix, q) ==
    CASE q.operator = "eq" -> TimestampsEq(ix.timestamps, Timestamp(q.rhs))
      [] q.operator = "ne" -> TimestampsNe(ix.timestamps, Timestamp(q.rhs))
      [] q.operator = "lt" -> TimestampsLt(ix.timestamps, Timestamp(q.rhs))
      [] q.operator = "le" -> TimestampsLe(ix.timestamps, Timestamp(q.rhs))
      [] q.operator = "gt" -> TimestampsGt(ix.timestamps, Timestamp(q.rhs))
      [] q.operator = "ge" -> TimestampsGe(ix.timestamps, Timestamp(q.rhs))
      [] OTHER -> TimestampsScan(ix.timestamps, 0, q)

\* raise TypeError("Query must be SimpleQuery or CompoundQuery.")
TypeError == [raised |-> "TypeError"]
\* the exception of a resolver, passing through search
ResolverError == [raised |-> "ResolverError"]
Raised(r) == "raised" \in DOMAIN r

\* the NOT branch complementing whatever its child is
_search_helper_not_always_inverts(ix, q, r) == Invert(r)

\* Index._search_helper, the NOT branch: r is the result of the child q.query1
_search_helper_not(ix, q, r) ==
    IF q.query1.kind = "simple" /\ q.query1.point_attr = "_fields"
    THEN [r EXCEPT !.items = Range(ix.num_items)]
    ELSE Invert(r)

\* Index._search_helper
RECURSIVE _search_helper(_, _)
_search_helper(ix, q) ==
    IF q.kind = "compound" /\ q.operator \in {"and_", "or_"}
    THEN LET rst1 == _search_helper(ix, q.query1)
             rst2 == _search_helper(ix, q.query2)
         IN IF Raised(rst1) THEN rst1
            ELSE IF Raised(rst2) THEN rst2
            ELSE IF q.operator = "and_" THEN And(rst1, rst2)
            ELSE Or(rst1, rst2)
    ELSE IF q.kind = "compound" /\ q.operator = "not_"
    THEN LET r == _search_helper(ix, q.query1)
         IN IF Raised(r) THEN r
            ELSE _search_helper_not(ix, q, r)
    ELSE IF q.kind = "simple" /\ q.point_attr = "_time"
    THEN IF _search_timestamps_raises(ix, q) THEN ResolverError
         ELSE IndexResult(_search_timestamps(ix, q), TRUE, ix.num_items)
    ELSE IF q.kind = "simple" /\ q.point_attr = "_measurement"
    THEN IF _search_measurement_raises(ix, q) THEN ResolverError
         ELSE IndexResult(_search_measurement(ix, q), TRUE, ix.num_items)
    ELSE IF q.kind = "simple" /\ q.point_attr = "_tags"
    THEN IndexResult(_search_tags(ix, q), TRUE, ix.num_items)
    ELSE IF q.kind = "simple" /\ q.point_attr = "_fields"
    THEN IndexResult(_search_fields(ix, q), FALSE, ix.num_items)
    ELSE TypeError

\* Index.search
search(ix, q) == _search_helper(ix, q)

(***************************************************************************)
(* Derived views of the state                                              *)
(***************************************************************************)
\* every posting list of an index
Postings(ix) ==
    {ix.measurements[m] : m \in DOMAIN ix.measurements}
    \cup {ix.fields[k] : k \in DOMAIN ix.fields}
    \cup UNION {{ix.tags[k][v] : v \in DOMAIN ix.tags[k]} : k \in DOMAIN ix.tags}

\* every position some posting list refers to
Held(ix) == UNION {Elems(l) : l \in Postings(ix)}

\* the order-preserving map that renumbers the positions H to 0 .. |H|-1
Renumber(H) == [p \in H |-> Cardinality({q \in H : q < p})]

\* the strictly order-preserving maps from D into 0 .. MaxPos
MonotoneMaps(D) ==
    {u \in [D -> 0..MaxPos] : \A p, q \in D : p < q => u[p] < u[q]}

Assign(ix) ==
    /\ num_items' = ix.num_items
    /\ tags' = ix.tags
    /\ fields' = ix.fields
    /\ measurements' = ix.measurements
    /\ timestamps' = ix.timestamps
    /\ valid' = ix.valid

(***************************************************************************)
(* Initial state: Index(valid) as constructed, nothing searched yet        *)
(***************************************************************************)
NoQuery == [kind |-> "none"]
NoResult == IndexResult(<<>>, TRUE, None)

Init ==
    /\ \E v \in BOOLEAN : 
          /\ num_items = NewIndex(v).num_items
          /\ tags = NewIndex(v).tags
          /\ fields = NewIndex(v).fields
          /\ measurements = NewIndex(v).measurements
          /\ timestamps = NewIndex(v).timestamps
          /\ valid = NewIndex(v).valid
    /\ op = "init"
    /\ prev = "init"
    /\ fault = FALSE
    /\ points = <<>>
    /\ sync = "synced"
    /\ lateInsert = FALSE
    /\ staleRemove = FALSE
    /\ stray = 0
    /\ covered = TRUE
    /\ query = NoQuery
    /\ rst = NoResult
    /\ ra = NoResult
    /\ rb = NoResult
    /\ rout = NoResult

\* the caller's count of operations outside the protocol, capped at MaxStray
Strayed(s) ==
    /\ stray' = IF s = "broken" THEN stray + 1 ELSE 0
    /\ stray' <= MaxStray

(***************************************************************************)
(* The maintenance operations                                              *)
(***************************************************************************)
\* index.build(pts)
Build ==
    \E pts \in ListsUpTo(PointPool, MaxLen) :
        /\ Assign(build(Self, pts))
        /\ op' = "build"
        /\ prev' = op
        /\ fault' = FALSE
        /\ points' = pts
        /\ sync' = "synced"
        /\ lateInsert' = FALSE
        /\ staleRemove' = FALSE
        /\ stray' = 0
        /\ covered' = TRUE
        /\ UNCHANGED <<searchVars, algebraVars>>

\* index.insert(pts)
Insert ==
    \E pts \in ListsUpTo(PointPool, MaxLen) :
        /\ pts # <<>>
        /\ Len(timestamps) + Len(pts) <= MaxLen
        /\ Assign(insert(Self, pts))
        /\ op' = "insert"
        /\ prev' = op
        /\ fault' = FALSE
        /\ sync' = IF sync = "synced" THEN "synced" ELSE "broken"
        /\ Strayed(sync')
        /\ points' = IF sync = "synced" THEN points \o pts ELSE <<>>
        /\ lateInsert' = (lateInsert \/ \E p \in Held(Self) : p >= Len(timestamps))
        /\ covered' = TRUE
        /\ UNCHANGED <<staleRemove, searchVars, algebraVars>>

\* index.invalidate()
Invalidate ==
    /\ Assign(invalidate(Self))
    /\ op' = "invalidate"
    /\ prev' = op
    /\ fault' = FALSE
    /\ points' = <<>>
    /\ sync' = "synced"
    /\ lateInsert' = FALSE
    /\ staleRemove' = FALSE
    /\ stray' = 0
    /\ covered' = TRUE
    /\ UNCHANGED <<searchVars, algebraVars>>

\* index.remove(r_items), r_items positions the index holds
Remove ==
    \E r_items \in SUBSET Held(Self) :
        /\ Assign(remove(Self, r_items))
        /\ op' = "remove"
        /\ prev' = op
        /\ fault' = FALSE
        /\ sync' = IF sync = "synced" THEN "pending" ELSE "broken"
        /\ Strayed(sync')
        /\ points' = IF sync = "synced" THEN DropPlaces(points, 0, r_items) ELSE <<>>
        /\ staleRemove' = (staleRemove \/ \E p \in r_items : p >= Len(timestamps))
        /\ covered' = TRUE
        /\ UNCHANGED <<lateInsert, searchVars, algebraVars>>

\* the (key, value) pairs of tags
TagPairs(tg) == {<<k, v>> : k \in DOMAIN tg, v \in UNION {DOMAIN tg[x] : x \in DOMAIN tg}}
                    \cap UNION {{<<k, v>> : v \in DOMAIN tg[k]} : k \in DOMAIN tg}

\* Index.update remapping the tags before the measurements
UpdateOutcomesTagsFirst(ix, u_items) ==
    LET okPairs == {kv \in TagPairs(ix.tags) : Missing(ix.tags[kv[1]][kv[2]], u_items) = {}}
        okKeys == {k \in DOMAIN ix.fields : Missing(ix.fields[k], u_items) = {}}
    IN IF okPairs # TagPairs(ix.tags)
       THEN {Outcome([ix EXCEPT !.tags = [k \in DOMAIN ix.tags |-> [v \in DOMAIN ix.tags[k] |->
                                     IF <<k, v>> \in done
                                     THEN Mapped(ix.tags[k][v], u_items)
                                     ELSE ix.tags[k][v]]]], TRUE)
               : done \in SUBSET okPairs}
       ELSE IF \E m \in DOMAIN ix.measurements : Missing(ix.measurements[m], u_items) # {}
       THEN {Outcome([ix EXCEPT !.tags = _update_tags(ix.tags, u_items)], TRUE)}
       ELSE IF okKeys # DOMAIN ix.fields
       THEN {Outcome([ix EXCEPT !.measurements = _update_measurements(ix.measurements, u_items),
                                !.tags = _update_tags(ix.tags, u_items),
                                !.fields = [k \in DOMAIN ix.fields |->
                                             IF k \in done
                                             THEN Mapped(ix.fields[k], u_items)
                                             ELSE ix.fields[k]]], TRUE)
               : done \in SUBSET okKeys}
       ELSE {Outcome(update(ix, u_items), FALSE)}

\* Index.update: the state it leaves and whether it raised KeyError, one
\* outcome per way the in-place loops of _update_tags / _update_fields can be
\* cut short by a failing lookup
UpdateOutcomes(ix, u_items) ==
    IF \E m \in DOMAIN ix.measurements : Missing(ix.measurements[m], u_items) # {}
    THEN \* _update_measurements raises before it assigns self._measurements
         {Outcome(ix, TRUE)}
    ELSE LET ms == _update_measurements(ix.measurements, u_items)
             okPairs == {kv \in TagPairs(ix.tags) : Missing(ix.tags[kv[1]][kv[2]], u_items) = {}}
             okKeys == {k \in DOMAIN ix.fields : Missing(ix.fields[k], u_items) = {}}
         IN IF okPairs # TagPairs(ix.tags)
            THEN \* _update_tags raises part way through its in-place rewrite
                 {Outcome([ix EXCEPT !.measurements = ms,
                             !.tags = [k \in DOMAIN ix.tags |-> [v \in DOMAIN ix.tags[k] |->
                                          IF <<k, v>> \in done
                                          THEN Mapped(ix.tags[k][v], u_items)
                                          ELSE ix.tags[k][v]]]], TRUE)
                    : done \in SUBSET okPairs}
            ELSE IF okKeys # DOMAIN ix.fields
            THEN \* _update_fields raises part way through its in-place rewrite
                 {Outcome([ix EXCEPT !.measurements = ms,
                             !.tags = _update_tags(ix.tags, u_items),
                             !.fields = [k \in DOMAIN ix.fields |->
                                          IF k \in done
                                          THEN Mapped(ix.fields[k], u_items)
                                          ELSE ix.fields[k]]], TRUE)
                    : done \in SUBSET okKeys}
            ELSE {Outcome(update(ix, u_items), FALSE)}

\* index.update(u_items), u_items strictly order-preserving
Update ==
    \E D \in SUBSET Held(Self) :
        \E u_items \in MonotoneMaps(D) :
            \E out \in UpdateOutcomes(Self, u_items) :
                /\ Assign(out.index)
                /\ op' = "update"
                /\ prev' = op
                /\ fault' = out.raised
                /\ covered' = (Held(Self) \subseteq DOMAIN u_items)
                /\ sync' = IF sync # "broken" /\ u_items = Renumber(Held(Self))
                           THEN "synced" ELSE "broken"
                /\ Strayed(sync')
                /\ points' = IF sync # "broken" /\ u_items = Renumber(Held(Self))
                             THEN points ELSE <<>>
                /\ UNCHANGED <<lateInsert, staleRemove, searchVars, algebraVars>>

Next == Build \/ Insert \/ Remove \/ Update \/ Invalidate

Spec == Init /\ [][Next]_vars

(***************************************************************************)
(* Properties of the maintenance operations (checked under Spec)           *)
(***************************************************************************)
StrictlyAscending(l) == \A i \in 1..(Len(l) - 1) : l[i] < l[i + 1]

\* C3 as claimed: after any sequence of build, insert, remove (of held
\* positions) and update (with a total, strictly order-preserving map), every
\* posting sequence is strictly ascending and duplicate-free.
C3_PostingsAscending == \A l \in Postings(Self) : StrictlyAscending(l)

\* C3 amended: the same, provided no insert ran while some held position was
\* not below len(timestamps), i.e. between a remove that shifted survivors and
\* the update that renumbers them: insert numbers new records from
\* len(timestamps) and would append a position that is already held.
C3_PostingsAscendingUnlessLateInsert == ~lateInsert => C3_PostingsAscending

\* C3 witness: an insert right after a remove (no update in between) that still
\* left every posting list ascending, because only the tail had been removed.
C3_Witness ==
    /\ op = "insert" /\ prev = "remove" /\ ~lateInsert
    /\ \E l \in Postings(Self) : Len(l) >= 2

\* C4 as claimed: in every state reachable by build, insert, remove and update
\* every position of every posting sequence lies in [0, num_items).
C4_PositionsInRange == \A p \in Held(Self) : 0 <= p /\ p < num_items

\* C4 amended: every held position lies in [0, num_items) whenever the caller
\* is in step with the index: after build and insert, and again once a remove
\* of held positions has been followed by the update with the order-preserving
\* map that renumbers the survivors to 0 .. num_items-1.  Between the remove and
\* that update the survivors keep their old positions, which may be >= num_items.
C4_PositionsInRangeWhenSynced == sync = "synced" => C4_PositionsInRange

\* C4 witness: a remove followed by its renumbering update, survivors left.
C4_Witness ==
    /\ op = "update" /\ prev = "remove" /\ sync = "synced" /\ ~fault
    /\ num_items >= 2

\* C5 as claimed: with every remove given positions that appear in the
\* postings, len(timestamps) = num_items in every reachable state.
C5_TimestampsLenIsNumItems == Len(timestamps) = num_items

\* C5 amended: len(timestamps) = num_items in every reachable state provided
\* every remove was given positions that appear in the postings and are below
\* len(timestamps); a held position that is stale (>= len(timestamps), after an
\* earlier remove without update) removes no timestamp but is still counted.
C5_TimestampsLenIsNumItemsUnlessStaleRemove == ~staleRemove => C5_TimestampsLenIsNumItems

\* C5 witness: a second remove without update in between, all positions below
\* len(timestamps), something removed and something left.
C5_Witness ==
    /\ op = "remove" /\ prev = "remove" /\ ~staleRemove
    /\ num_items >= 1 /\ num_items < MaxLen - 1

\* C6: build(L), remove(S), update(renumbering map) leaves the index equal to a
\* fresh build of L with the records at positions S deleted (points is that
\* list).  valid singles out the indexes that were built (or constructed
\* valid): remove and update leave the flag alone, build sets it.
C6_RemoveUpdateIsRebuild ==
    (op = "update" /\ prev = "remove" /\ sync = "synced" /\ valid)
        => Self = build(NewIndex(TRUE), points)

\* C6 witness: such a remove + update with records removed and records left.
C6_Witness ==
    /\ op = "update" /\ prev = "remove" /\ sync = "synced" /\ valid
    /\ Len(points) >= 2 /\ timestamps[1] # 1
    /\ \E m \in DOMAIN measurements : Len(measurements[m]) = 2

\* C7: build(A) then insert(B) yields the index state of build(A ++ B)
\* (points is A ++ B; valid singles out the indexes that were built).
C7_BuildInsertIsBuildOfConcat ==
    (op = "insert" /\ sync = "synced" /\ valid)
        => Self = build(NewIndex(TRUE), points)

\* C7 witness: an insert right after a build, both with records.
C7_Witness ==
    /\ op = "insert" /\ prev = "build" /\ sync = "synced" /\ valid
    /\ Len(points) = MaxLen
    /\ \E m \in DOMAIN measurements : Len(measurements[m]) = MaxLen

(***************************************************************************)
(* Searching: build / insert as above, and index.search(q).  search does    *)
(* not change the index, so the state that records its result is not        *)
(* continued from.                                                          *)
(***************************************************************************)
\* right-hand sides of the Time leaves: below, between, equal to and above the
\* timestamps of PointPool
TimeValues == 0..4

TimeLeaves ==
    {TimeQuery(o, t) : o \in {"eq", "ne", "lt", "le", "gt", "ge"}, t \in TimeValues}
    \cup {TimeTestQuery({DateTime(3)}), TimeTestQuery({DateTime(1), DateTime(2)})}

\* the leaves the compound queries are made of
TreeLeaves ==
    { TimeQuery("gt", 1),
      MeasurementQuery({"m1"}),
      TagQuery("k1", {"a"}),
      FieldQuery("f1", {1}) }

OtherLeaves ==
    { MeasurementQuery({"m1", "m2"}), MeasurementQuery({"m3"}),
      TagQuery("k1", {"a", "b"}), TagQuery("k2", {"a"}), TagQuery("k3", {"a"}),
      FieldQuery("f1", {1, 2}), FieldQuery("f2", {1}) }

\* one connective over the given operands
Compounds(A, B) ==
    {NotQuery(q) : q \in A}
    \cup {AndQuery(q1, q2) : q1 \in A, q2 \in B}
    \cup {OrQuery(q1, q2) : q1 \in A, q2 \in B}

Depth1 == TreeLeaves \cup Compounds(TreeLeaves, TreeLeaves)
Depth2 == Depth1 \cup Compounds(Depth1, TreeLeaves)

\* neither a SimpleQuery nor a CompoundQuery
Malformed == {[kind |-> "other"], NotQuery([kind |-> "other"])}

\* leaves whose resolver faults on a value some record of PointPool carries
FaultingLeaves ==
    { WithResolver(MeasurementQuery({"m1"}), {"m2"}),
      WithResolver(TagQuery("k1", {"a", "b"}), {"b"}),
      WithResolver(TimeTestQuery({DateTime(3)}), {DateTime(1)}) }

Queries ==
    TimeLeaves \cup OtherLeaves \cup Depth2 \cup Malformed
    \cup FaultingLeaves \cup {NotQuery(q) : q \in FaultingLeaves}
    \cup {NotQuery(q) : q \in {FieldQuery("f1", {1, 2}), FieldQuery("f2", {1})}}

\* index.search(q), q among Q
SearchIn(Q) ==
    \E q \in Q :
        /\ op # "search"
        /\ query' = q
        /\ rst' = search(Self, q)
        /\ op' = "search"
        /\ prev' = op
        /\ fault' = Raised(search(Self, q))
        /\ UNCHANGED <<indexVars, callerVars, algebraVars>>

\* index.search(q)
Search == SearchIn(Queries)

NextSearch ==
    \/ op # "search" /\ Build
    \/ op # "search" /\ Insert
    \/ Search

SpecSearch == Init /\ [][NextSearch]_vars

(***************************************************************************)
(* Properties of search (checked under SpecSearch, where points is the      *)
(* record list the index was built and extended from)                       *)
(***************************************************************************)
RECURSIVE HasFieldLeaf(_)
HasFieldLeaf(q) ==
    IF q.kind = "compound"
    THEN HasFieldLeaf(q.query1)
         \/ (q.operator \in {"and_", "or_"} /\ HasFieldLeaf(q.query2))
    ELSE q.kind = "simple" /\ q.point_attr = "_fields"

NonDescending(ts) == \A i \in 1..(Len(ts) - 1) : ts[i] <= ts[i + 1]

\* the positions whose record satisfies q
TrueMatches(q) == {p \in 0..(Len(points) - 1) : Satisfies(q, points[p + 1])}

\* the search that produced this state answered (did not raise)
Searched == op = "search" /\ ~fault

\* C1: records indexed in non-descending time order by build / insert, a query
\* without Field leaf: search returns is_complete = TRUE and items listing, in
\* ascending order, exactly the positions whose record satisfies the query.
C1_ExactWithoutFieldLeaf ==
    (Searched /\ ~HasFieldLeaf(query) /\ NonDescending(timestamps))
        => /\ rst.is_complete
           /\ StrictlyAscending(rst.items)
           /\ Elems(rst.items) = TrueMatches(query)

\* C1 witness: a negated conjunction of a Measurement and a Time leaf answered with some
\* but not all positions.
C1_Witness ==
    /\ Searched /\ NonDescending(timestamps)
    /\ query = NotQuery(AndQuery(MeasurementQuery({"m1"}), TimeQuery("gt", 1)))
    /\ Len(rst.items) = 2 /\ num_items = MaxLen

\* C2 as claimed: for a query with a Field leaf anywhere, items is a superset
\* of the positions whose record satisfies the query.
C2_SupersetWithFieldLeaf ==
    (Searched /\ HasFieldLeaf(query) /\ NonDescending(timestamps))
        => TrueMatches(query) \subseteq Elems(rst.items)

\* C8: timestamps in non-descending order, a Time leaf with one of the six
\* comparison operators: items are exactly the positions p with
\* timestamps[p] op t, in ascending order, as a linear scan finds them.
C8_TimeLeafIsLinearScan ==
    (Searched /\ query \in TimeLeaves /\ query.operator # "test"
              /\ NonDescending(timestamps))
        => /\ StrictlyAscending(rst.items)
           /\ Elems(rst.items) =
                {p \in 0..(Len(timestamps) - 1) :
                    Compare(query.operator, timestamps[p + 1], Timestamp(query.rhs))}

\* C8 witness: time == t answered with both duplicates of t, a smaller
\* timestamp before them.
C8_Witness ==
    /\ Searched /\ query = TimeQuery("eq", 3)
    /\ timestamps = <<1, 3, 3>> /\ rst.items = <<1, 2>>

\* C9: search returns is_complete = FALSE iff the query contains a Field leaf.
C9_IncompleteIffFieldLeaf ==
    Searched => (rst.is_complete = FALSE <=> HasFieldLeaf(query))

\* C9 witness: a Field leaf below two connectives, answered incomplete.
C9_Witness ==
    /\ Searched /\ num_items > 0
    /\ query = OrQuery(NotQuery(FieldQuery("f1", {1})), TagQuery("k1", {"a"}))
    /\ ~rst.is_complete

(***************************************************************************)
(* The IndexResult algebra on its own: ra is drawn at the start, rb is the  *)
(* second operand (drawn, or the previous result fed back), rout the result *)
(* of the last operation.                                                   *)
(***************************************************************************)
\* the ascending duplicate-free lists over 0 .. n-1
AscendingLists(n) ==
    {l \in UNION {[1..k -> 0..(n - 1)] : k \in 0..n} : StrictlyAscending(l)}

Results ==
    UNION {{IndexResult(items, c, n) : items \in AscendingLists(n), c \in BOOLEAN}
           : n \in 0..MaxCount}

InitAlgebra ==
    /\ num_items = 0 /\ tags = EmptyDict /\ fields = EmptyDict
    /\ measurements = EmptyDict /\ timestamps = <<>> /\ valid = TRUE
    /\ op = "init" /\ prev = "init" /\ fault = FALSE
    /\ points = <<>> /\ sync = "synced" /\ lateInsert = FALSE
    /\ staleRemove = FALSE /\ stray = 0 /\ covered = TRUE
    /\ query = NoQuery /\ rst = NoResult
    /\ ra \in Results
    /\ rb = ra
    /\ rout = ra

AlgStep(name, result) ==
    /\ rout' = result
    /\ op' = name
    /\ prev' = op
    /\ UNCHANGED <<ra, rb, indexVars, callerVars, searchVars, fault>>

\* ~rb
AlgInvert == AlgStep("invert", Invert(rb))

\* ra & rb
AlgAnd == AlgStep("and", And(ra, rb))

\* ra | rb
AlgOr == AlgStep("or", Or(ra, rb))

\* the last result becomes the second operand
AlgLoad ==
    /\ rb' = rout
    /\ op' = "load"
    /\ prev' = op
    /\ UNCHANGED <<ra, rout, indexVars, callerVars, searchVars, fault>>

\* another second operand over the same universe
AlgPick ==
    \E r \in Results :
        /\ r.index_count = ra.index_count
        /\ rb' = r
        /\ op' = "pick"
        /\ prev' = op
        /\ UNCHANGED <<ra, rout, indexVars, callerVars, searchVars, fault>>

NextAlgebra == AlgInvert \/ AlgAnd \/ AlgOr \/ AlgLoad \/ AlgPick

SpecAlgebra == InitAlgebra /\ [][NextAlgebra]_vars

\* C10: r and complement(r) partition the universe: r & ~r has no items,
\* r | ~r has the items 0 .. index_count-1, and ~~r has the items of r.
C10_ComplementPartitions ==
    rb = Invert(ra) =>
        /\ op = "and" => rout.items = <<>>
        /\ op = "or" => rout.items = Range(ra.index_count)
        /\ op = "invert" => rout.items = ra.items

\* C10 witness: r | ~r computed from ~r fed back as the second operand, r and
\* ~r both with items.
C10_Witness ==
    /\ op = "or" /\ prev = "load" /\ rb = Invert(ra)
    /\ ra.items # <<>> /\ rb.items # <<>>
    /\ rout.items = Range(MaxCount)

\* C11: ra & rb and ra | rb are complete exactly when both operands are, and
\* ~rb keeps the is_complete and the index_count of rb.
C11_CompletenessPropagates ==
    /\ op \in {"and", "or"} => (rout.is_complete <=> (ra.is_complete /\ rb.is_complete))
    /\ op = "invert" => /\ rout.is_complete = rb.is_complete
                        /\ rout.index_count = rb.index_count

\* C11 witness: an intersection of a complete and an incomplete operand, both
\* with items, is incomplete.
C11_Witness ==
    /\ op = "and" /\ ra.is_complete /\ ~rb.is_complete
    /\ ra.items # <<>> /\ rb.items # <<>> /\ ~rout.is_complete

(***************************************************************************)
(* The lookup fault of update (checked under Spec)                         *)
(***************************************************************************)
\* C12: update(u_items) raises the lookup fault exactly when some position
\* held by a measurement, tag or field posting list has no key in u_items:
\* it raises when one is absent and succeeds when all are present.
C12_UpdateFaultsIffPositionAbsent ==
    op = "update" => (fault <=> ~covered)

\* C12 witness: an update of an index holding tags and fields raised on a
\* map that left a held position out.
C12_Witness ==
    /\ op = "update" /\ fault /\ ~covered
    /\ Cardinality(Held(Self)) >= 2
    /\ tags # EmptyDict /\ fields # EmptyDict

\* C18: an update that raises the lookup fault leaves num_items, tags,
\* fields, measurements, timestamps and valid exactly as they were.
C18_FailingUpdateIsAtomic ==
    [][(op' = "update" /\ fault') => UNCHANGED indexVars]_vars

\* C18 witness: an update raised on an index, left by a remove, that holds
\* two tag values and a field.
C18_Witness ==
    /\ op = "update" /\ fault /\ prev = "remove"
    /\ Cardinality(TagPairs(tags)) >= 2 /\ fields # EmptyDict

(***************************************************************************)
(* Faults of search (checked under SpecSearch)                             *)
(***************************************************************************)
\* every node of q is a leaf or a compound
RECURSIVE WellFormed(_)
WellFormed(q) ==
    IF q.kind = "compound"
    THEN WellFormed(q.query1)
         /\ (q.operator \in {"and_", "or_"} => WellFormed(q.query2))
    ELSE q.kind = "simple"

\* C13: search raises only on a malformed query node: a resolver faulting on
\* a scanned key or value is skipped, for Measurement, Tag, Field and Time
\* leaves alike, and search returns an IndexResult.
C13_ResolverFaultNeverPropagates ==
    (op = "search" /\ WellFormed(query)) => ~Raised(rst)

(***************************************************************************)
(* Measurement names, invalidate and build (checked under Spec)            *)
(***************************************************************************)
\* C14: after any sequence of build, insert, remove and update no
\* measurement, tag key, tag value or field key is kept with an empty posting
\* list, every held position is under some measurement name, and (while the
\* caller's list mirrors the index) get_measurement_names is exactly the set
\* of measurements of the surviving records.
C14_MeasurementNamesAreTheLiveOnes ==
    /\ \A m \in DOMAIN measurements : measurements[m] # <<>>
    /\ \A k \in DOMAIN fields : fields[k] # <<>>
    /\ \A k \in DOMAIN tags : /\ DOMAIN tags[k] # {}
                              /\ \A v \in DOMAIN tags[k] : tags[k][v] # <<>>
    /\ Held(Self) = UNION {Elems(measurements[m]) : m \in get_measurement_names(Self)}
    /\ sync # "broken" =>
           get_measurement_names(Self) = {points[i].measurement : i \in 1..Len(points)}

\* C14 witness: a remove that left one of two records, the survivor at
\* position 1, and one measurement name.
C14_Witness ==
    /\ op = "remove" /\ sync = "pending" /\ Len(points) = 1
    /\ Held(Self) = {1} /\ Cardinality(get_measurement_names(Self)) = 1

\* C15: whatever the state before, invalidate leaves num_items = 0, no
\* timestamps, no measurement, tag or field posting, and valid = FALSE.
C15_InvalidateEmpties ==
    op = "invalidate" =>
        /\ num_items = 0 /\ timestamps = <<>>
        /\ measurements = EmptyDict /\ tags = EmptyDict /\ fields = EmptyDict
        /\ valid = FALSE

\* C15 witness: invalidate ran right after a remove.
C15_Witness == op = "invalidate" /\ prev = "remove" /\ ~valid /\ num_items = 0

\* the positions 0 .. Len(pts)-1 whose record satisfies P, ascending
PositionsWhere(pts, P(_)) == SelectSeq(Range(Len(pts)), LAMBDA p : P(pts[p + 1]))

\* the index of pts written out: record i (from 0) at position i
IndexOf(pts) ==
    [num_items |-> Len(pts),
     timestamps |-> [i \in 1..Len(pts) |-> Timestamp(pts[i].time)],
     measurements |->
         [m \in {pts[i].measurement : i \in 1..Len(pts)} |->
             PositionsWhere(pts, LAMBDA pt : pt.measurement = m)],
     tags |->
         [k \in UNION {DOMAIN pts[i].tags : i \in 1..Len(pts)} |->
             [v \in {pts[i].tags[k] : i \in {j \in 1..Len(pts) : k \in DOMAIN pts[j].tags}} |->
                 PositionsWhere(pts, LAMBDA pt : k \in DOMAIN pt.tags /\ pt.tags[k] = v)]],
     fields |->
         [k \in UNION {DOMAIN pts[i].fields : i \in 1..Len(pts)} |->
             PositionsWhere(pts, LAMBDA pt : k \in DOMAIN pt.fields)],
     valid |-> TRUE]

\* C16: whatever the state before, build(L) leaves what build(L) leaves on a
\* newly constructed index (valid or not): record i of L at position i,
\* nothing of the earlier state, valid = TRUE.
C16_BuildDiscardsPriorState ==
    op = "build" =>
        /\ Self = IndexOf(points)
        /\ \A v \in BOOLEAN : Self = build(NewIndex(v), points)

\* C16 witness: a build of two records right after a remove.
C16_Witness == op = "build" /\ prev = "remove" /\ Len(points) >= 2

(***************************************************************************)
(* NOT over a Field leaf (checked under SpecSearch)                        *)
(***************************************************************************)
\* C17: for a NOT whose single child is a Field leaf, search does not
\* complement: items is the whole range 0 .. num_items-1 and is_complete is
\* FALSE, whatever field keys the index holds.
C17_NotOfFieldLeafIsWholeRange ==
    (/\ Searched
     /\ query.kind = "compound" /\ query.operator = "not_"
     /\ query.query1.kind = "simple" /\ query.query1.point_attr = "_fields")
    => /\ rst.items = Range(num_items)
       /\ ~rst.is_complete

\* C17 witness: NOT(field f1) on three records of which some, not all, carry
\* f1 returned all three positions.
C17_Witness ==
    /\ Searched /\ query = NotQuery(FieldQuery("f1", {1}))
    /\ num_items = 3 /\ "f1" \in DOMAIN fields /\ Len(fields["f1"]) < 3
    /\ rst.items = <<0, 1, 2>> /\ ~rst.is_complete

(***************************************************************************)
(* The valid flag: every operation of the index together.  As above, the   *)
(* state that records a search result is not continued from.               *)
(***************************************************************************)
\* index.search(q) for a query that is answered and for one that raises
SearchSome ==
    SearchIn({ NotQuery(AndQuery(MeasurementQuery({"m1"}), TimeQuery("gt", 1))),
               NotQuery([kind |-> "other"]) })

NextAll ==
    \/ op # "search" /\ Build
    \/ op # "search" /\ Insert
    \/ op # "search" /\ Remove
    \/ op # "search" /\ Update
    \/ op # "search" /\ Invalidate
    \/ SearchSome

SpecAll == Init /\ [][NextAll]_vars

\* C19: valid is set TRUE by build and FALSE by invalidate, and insert,
\* remove, update and search leave it as it was: an invalid index stays
\* invalid until the next build, also when records are inserted.
C19_ValidChangesOnlyByBuildAndInvalidate ==
    [][/\ op' = "build" => valid' = TRUE
       /\ op' = "invalidate" => valid' = FALSE
       /\ op' \in {"insert", "remove", "update", "search"} => valid' = valid]_vars

\* C19 witness: records were inserted into an invalidated index, which is
\* still invalid.
C19_Witness ==
    op = "insert" /\ prev = "invalidate" /\ num_items >= 1 /\ ~valid

====
